---------------------------- MODULE Spec2Model ----------------------------
(***************************************************************************)
(* Model of the Obsidian vault MCP server: the git synchronisation engine  *)
(* (src/src/git_manager.py, GitManager), the path containment validator    *)
(* (src/src/vault_manager.py, VaultManager.validate_path) and the tool      *)
(* handlers that drive both (src/src/server.py).                            *)
(*                                                                         *)
(* Strings that the code inspects character by character (request paths,   *)
(* URLs) are sequences of one-character strings.                            *)
(***************************************************************************)
EXTENDS Integers, Sequences, FiniteSets, TLC

----------------------------------------------------------------------------
(* Bounds of the model.                                                    *)

\* longest request path enumerated by PathSpec
MaxLen == 4
\* number of distinct uncommitted edits the working tree can hold
MaxEdits == 1
\* engine calls and requests started in one behaviour, start-up included
MaxOps == 2

----------------------------------------------------------------------------
(* Strings as sequences of characters.                                     *)

StartsWith(s, pre) ==
    Len(s) >= Len(pre) /\ SubSeq(s, 1, Len(pre)) = pre

EndsWith(s, suf) ==
    Len(s) >= Len(suf) /\ SubSeq(s, Len(s) - Len(suf) + 1, Len(s)) = suf

\* Python's  sub in s
Contains(s, sub) ==
    \E i \in 1..(Len(s) - Len(sub) + 1) : SubSeq(s, i, i + Len(sub) - 1) = sub

\* Python's  s.split("/")
RECURSIVE SplitSlash(_)
SplitSlash(s) ==
    IF \A i \in 1..Len(s) : s[i] /= "/"
    THEN <<s>>
    ELSE LET i == CHOOSE k \in 1..Len(s) :
                      s[k] = "/" /\ \A j \in 1..(k - 1) : s[j] /= "/"
         IN  <<SubSeq(s, 1, i - 1)>> \o SplitSlash(SubSeq(s, i + 1, Len(s)))

\* Python's  "/".join(comps)
RECURSIVE JoinSlash(_)
JoinSlash(comps) ==
    IF comps = <<>> THEN <<>>
    ELSE IF Len(comps) = 1 THEN comps[1]
    ELSE comps[1] \o <<"/">> \o JoinSlash(Tail(comps))

DotDot == <<".", ".">>

----------------------------------------------------------------------------
(* os.path.normpath (posixpath), as validate_path calls it.                *)

\* number of leading slashes normpath keeps: 0, 1, or 2 (exactly two are kept)
InitialSlashes(path) ==
    IF ~StartsWith(path, <<"/">>) THEN 0
    ELSE IF StartsWith(path, <<"/", "/">>) /\ ~StartsWith(path, <<"/", "/", "/">>)
         THEN 2
         ELSE 1

\* the loop over the components: drops "" and ".", collapses "x/.."
RECURSIVE NormComps(_, _, _)
NormComps(comps, new, initial) ==
    IF comps = <<>> THEN new
    ELSE LET comp == Head(comps)
             rest == Tail(comps)
         IN  IF comp = <<>> \/ comp = <<".">>
             THEN NormComps(rest, new, initial)
             ELSE IF \/ comp /= DotDot
                     \/ (initial = 0 /\ new = <<>>)
                     \/ (new /= <<>> /\ new[Len(new)] = DotDot)
             THEN NormComps(rest, Append(new, comp), initial)
             ELSE IF new /= <<>>
             THEN NormComps(rest, SubSeq(new, 1, Len(new) - 1), initial)
             ELSE NormComps(rest, new, initial)

normpath(path) ==
    IF path = <<>> THEN <<".">>
    ELSE LET initial == InitialSlashes(path)
             joined  == JoinSlash(NormComps(SplitSlash(path), <<>>, initial))
             out     == [i \in 1..initial |-> "/"] \o joined
         IN  IF out = <<>> THEN <<".">> ELSE out

----------------------------------------------------------------------------
(* The filesystem validate_path resolves against.  Absolute paths are      *)
(* sequences of segments below "/".                                        *)

\* VaultManager.vault_path, already resolved by the constructor
VaultRoot == << <<"v">> >>

\* the one symbolic link on disk: /v/l -> /e, a directory outside the vault
LinkAt == << <<"v">>, <<"l">> >>
LinkTarget == << <<"e">> >>

\* the segments of a normalised path string (pathlib drops "" and ".")
Segments(s) ==
    LET comps == SplitSlash(s)
        keep  == {i \in 1..Len(comps) : comps[i] /= <<>> /\ comps[i] /= <<".">>}
        F[i \in 0..Len(comps)] ==
            IF i = 0 THEN <<>>
            ELSE IF i \in keep THEN Append(F[i - 1], comps[i]) ELSE F[i - 1]
    IN  F[Len(comps)]

\* vault_path / normalized : an absolute right operand replaces the left one
JoinVault(normalized) ==
    IF StartsWith(normalized, <<"/">>)
    THEN Segments(normalized)
    ELSE VaultRoot \o Segments(normalized)

\* Path.resolve(): walks the segments from "/", steps up on "..", and follows
\* the symbolic link wherever a prefix reaches it
RECURSIVE ResolveFrom(_, _)
ResolveFrom(acc, segs) ==
    IF segs = <<>> THEN acc
    ELSE LET seg  == Head(segs)
             next == IF seg = DotDot
                     THEN SubSeq(acc, 1, Len(acc) - 1)
                     ELSE Append(acc, seg)
         IN  ResolveFrom(IF next = LinkAt THEN LinkTarget ELSE next, Tail(segs))

Resolve(segs) == ResolveFrom(<<>>, segs)

\* mutant of IsUnderVault: the check after resolution is missing
IsUnderVaultUnchecked(abs) == TRUE

\* full_path.relative_to(self.vault_path) does not raise
IsUnderVault(abs) == StartsWith(abs, VaultRoot)

----------------------------------------------------------------------------
(* VaultManager.validate_path                                              *)

Accepted(p) == [ok |-> TRUE, err |-> "none", path |-> p]
Rejected(e) == [ok |-> FALSE, err |-> e, path |-> <<>>]

\* the lexical pre-check: a test on the characters of the normalised string
LexicalReject(normalized) ==
    \/ StartsWith(normalized, DotDot)
    \/ Contains(normalized, <<"/", ".", ".">>)
    \/ Contains(normalized, <<"\\", ".", ".">>)

validate_path(relative_path) ==
    LET normalized == normpath(relative_path)
        full_path  == Resolve(JoinVault(normalized))
    IN  IF LexicalReject(normalized)
        THEN Rejected("Path traversal detected")
        ELSE IF ~IsUnderVault(full_path)
        THEN Rejected("Path escapes vault")
        ELSE Accepted(full_path)

----------------------------------------------------------------------------
(* State.                                                                  *)

VARIABLES
    \* configuration (ObsidianConfig), fixed at construction
    cfgUrl,        \* git_repo_url
    cfgToken,      \* git_token, <<>> when absent
    autoSync,      \* auto_sync
    \* the local root on disk, the repository in it and the remote
    pathExists,    \* local_path.exists()
    gitDir,        \* (local_path / ".git").exists()
    originUrl,     \* the URL the repository's remote "origin" was cloned from
    wt,            \* uncommitted edits in the working tree
    staged,        \* the edits among them that are in the index
    stash,         \* the stash stack, newest first
    ahead,         \* local commits the remote branch does not have
    trackAhead,    \* local commits not reachable from origin/<branch> as last fetched
    lastMsg,       \* message of the newest local commit
    files,         \* resolved paths of the files present in the vault
    \* GitManager
    lastSync,      \* _last_sync
    logLeak,       \* a written log line contained the token
    \* the engine call in progress
    pc,            \* position in the code
    stack,         \* active engine methods, outermost first
    caller,        \* who called the outermost one: "api", "startup", "handler"
    top,           \* the outermost method
    message,       \* push's / sync's message argument
    cmds,          \* git commands issued by this call: [cmd, rc, out]
    had_stash,     \* pull's local variable
    wt0,           \* working-tree edits when the current pull or push was entered
    delegations,   \* clone -> pull and pull -> clone delegations in this call
    pullRes,       \* sync's pull_result
    pushRes,       \* sync's push_result
    result,        \* what the outermost method returned (or that it raised)
    \* the server
    serving,       \* module start-up (the initial clone) succeeded
    ops,           \* operations started so far
    handler,       \* the tool handler in progress
    hpc,           \* its position
    reqPath,       \* the caller-supplied path, after the ".md" default
    full_path,     \* validate_path's result
    hEvents,       \* what the handler did so far, in order
    hresult,       \* the handler's response
    \* a second request being served at the same time
    parked         \* its engine call, while the call above is the one running

cfgVars  == <<cfgUrl, cfgToken, autoSync>>
repoVars == <<pathExists, gitDir, originUrl, wt, staged, stash, ahead, trackAhead,
              lastMsg>>
callVars == <<pc, stack, caller, top, message, cmds, had_stash, wt0, delegations,
              pullRes, pushRes, result>>
hVars    == <<handler, hpc, reqPath, full_path, hEvents, hresult>>
vars     == <<cfgVars, repoVars, files, lastSync, logLeak, callVars, serving, ops,
              hVars, parked>>

Edits == 1..MaxEdits

\* _last_sync = None
NoSync == -1

----------------------------------------------------------------------------
(* Configuration strings.                                                  *)

HttpsUrl == <<"https://", "host/vault.git">>
SshUrl   == <<"git@", "host:vault.git">>
Token    == <<"ghp_secret">>
NoToken  == <<>>
Branch   == <<"main">>
LocalPath == <<"/v">>

\* str.replace("https://", "https://<token>@")
RECURSIVE ReplaceScheme(_, _)
ReplaceScheme(url, token) ==
    IF url = <<>> THEN <<>>
    ELSE IF Head(url) = "https://"
    THEN <<"https://">> \o token \o <<"@">> \o ReplaceScheme(Tail(url), token)
    ELSE <<Head(url)>> \o ReplaceScheme(Tail(url), token)

_inject_token(url, token) ==
    IF StartsWith(url, <<"https://">>) THEN ReplaceScheme(url, token) ELSE url

\* self.repo_url and self.repo_url_safe, as __init__ sets them
repo_url == IF cfgToken /= <<>> THEN _inject_token(cfgUrl, cfgToken) ELSE cfgUrl
repo_url_safe == cfgUrl

\* the text holds the configured token
HoldsToken(text) == cfgToken /= <<>> /\ Contains(text, cfgToken)

\* " ".join(cmd)
RECURSIVE JoinSpace(_)
JoinSpace(args) ==
    IF args = <<>> THEN <<>>
    ELSE IF Len(args) = 1 THEN args[1]
    ELSE args[1] \o <<" ">> \o JoinSpace(Tail(args))

\* logging.basicConfig(level=LOG_LEVEL or INFO): which records are written
LevelRank(level) ==
    CASE level = "DEBUG" -> 10 [] level = "INFO" -> 20 [] level = "ERROR" -> 40
LogLevel == "INFO"
Written(level) == LevelRank(level) >= LevelRank(LogLevel)

----------------------------------------------------------------------------
(* Operation outcomes: the dictionaries the engine returns.                *)

Outcome(success, action, step, error, pushed) ==
    [kind |-> "outcome", success |-> success, action |-> action, step |-> step,
     error |-> error, changes_pushed |-> pushed, has_pull |-> FALSE,
     has_push |-> FALSE, leak |-> FALSE]

\* nothing returned yet
NoRes == [Outcome(FALSE, "none", "none", "none", "absent") EXCEPT !.kind = "none"]
\* an exception left the method instead of a return value
Raised(what) == [Outcome(FALSE, "none", "none", what, "absent") EXCEPT !.kind = "exception"]
\* get_status's snapshot
Snapshot(error, leak) ==
    [Outcome(FALSE, "get_status", "none", error, "absent")
        EXCEPT !.kind = "status", !.leak = leak]

----------------------------------------------------------------------------
(* GitManager._run_git and the call/return skeleton of the engine.         *)

\* str.strip(): whitespace characters off both ends
IsSpace(c) == c \in {" ", "\n", "\t"}
RECURSIVE LStrip(_)
LStrip(s) == IF s /= <<>> /\ IsSpace(Head(s)) THEN LStrip(Tail(s)) ELSE s
RECURSIVE RStrip(_)
RStrip(s) ==
    IF s /= <<>> /\ IsSpace(s[Len(s)]) THEN RStrip(SubSeq(s, 1, Len(s) - 1)) ELSE s
Strip(s) == LStrip(RStrip(s))

\* the argument vectors of the commands whose arguments depend on configuration
CloneArgs ==
    << <<"git">>, <<"clone">>, <<"--branch">>, Branch, <<"--single-branch">>,
       <<"--depth">>, <<"1">>, repo_url, LocalPath >>
PlainArgs(name) == << <<"git">>, <<name>> >>

\* the subprocess outcomes: exit status zero, nonzero, TimeoutExpired after
\* 120 s, or OSError because the working directory does not exist
GitOutcomes(cwdExists, canSucceed) ==
    IF ~cwdExists THEN {"oserror"}
    ELSE IF canSucceed THEN {"ok", "fail", "timeout"}
    ELSE {"fail", "timeout"}

\* subprocess.run raised: nothing catches it inside the engine
Raises(rc) == rc \in {"timeout", "oserror"}

\* _run_git's own log lines: the command at DEBUG before it runs and at
\* ERROR when it exits nonzero
RunGitLogsToken(args, rc) ==
    \/ Written("DEBUG") /\ HoldsToken(JoinSpace(args))
    \/ rc = "fail" /\ Written("ERROR") /\ HoldsToken(JoinSpace(args))

RunGit(name, args, rc, out) ==
    /\ cmds' = Append(cmds, [cmd |-> name, rc |-> rc, out |-> out])
    /\ logLeak' = (logLeak \/ RunGitLogsToken(args, rc))

\* the method on top of the stack returns v to its caller: to sync when sync
\* called it, otherwise to whoever called the engine
Return(v) ==
    IF Len(stack) > 1
    THEN /\ stack' = SubSeq(stack, 1, Len(stack) - 1)
         /\ IF pullRes.kind = "none"
            THEN pullRes' = v /\ pc' = "sync_after_pull" /\ UNCHANGED pushRes
            ELSE pushRes' = v /\ pc' = "sync_after_push" /\ UNCHANGED pullRes
         /\ UNCHANGED <<result, serving>>
    ELSE /\ stack' = <<>>
         /\ pc' = "idle"
         /\ result' = v
         \* server.py: sys.exit(1) unless the start-up clone succeeded
         /\ serving' = (serving \/ (caller = "startup" /\ v.success))
         /\ UNCHANGED <<pullRes, pushRes>>

\* an exception unwinds every engine frame
Raise(what) ==
    /\ stack' = <<>>
    /\ pc' = "idle"
    /\ result' = Raised(what)
    /\ UNCHANGED <<pullRes, pushRes, serving>>

\* return self.pull() / return self.clone(): the callee takes the frame over
Delegate(callee) ==
    /\ stack' = [stack EXCEPT ![Len(stack)] = callee]
    /\ pc' = callee
    /\ delegations' = delegations + 1
    /\ UNCHANGED <<result, pullRes, pushRes, serving>>

Goto(label) ==
    /\ pc' = label
    /\ UNCHANGED <<stack, result, pullRes, pushRes, serving>>

\* unchanged by every step inside the engine
Outside == <<cfgVars, caller, top, message, ops, hVars, parked>>

\* unchanged by every step of a handler outside the engine
EngineIdle == <<cfgVars, pathExists, gitDir, originUrl, staged, stash, ahead, trackAhead,
                lastMsg, lastSync, logLeak, serving, parked>>

EntryPc(op) ==
    CASE op = "clone" -> "clone"
      [] op = "pull" -> "pull"
      [] op = "push" -> "push_status"
      [] op = "sync" -> "sync"
      [] op = "get_status" -> "gs_check"

\* a caller enters an engine method
BeginCall(op, who, msg) ==
    /\ pc' = EntryPc(op)
    /\ stack' = <<op>>
    /\ caller' = who
    /\ top' = op
    /\ message' = msg
    /\ cmds' = <<>>
    /\ had_stash' = FALSE
    /\ wt0' = wt
    /\ delegations' = 0
    /\ pullRes' = NoRes
    /\ pushRes' = NoRes
    /\ result' = NoRes

\* no engine call made yet by the request that starts
\* the local state of an engine call: the one in progress, and no call
ThisCall ==
    [pc |-> pc, stack |-> stack, caller |-> caller, top |-> top, message |-> message,
     cmds |-> cmds, had_stash |-> had_stash, wt0 |-> wt0, delegations |-> delegations,
     pullRes |-> pullRes, pushRes |-> pushRes, result |-> result]

NoCall ==
    [pc |-> "idle", stack |-> <<>>, caller |-> "none", top |-> "none", message |-> "none",
     cmds |-> <<>>, had_stash |-> FALSE, wt0 |-> {}, delegations |-> 0,
     pullRes |-> NoRes, pushRes |-> NoRes, result |-> NoRes]

ClearCall ==
    /\ pc' = "idle"
    /\ stack' = <<>>
    /\ caller' = "none"
    /\ top' = "none"
    /\ message' = "none"
    /\ cmds' = <<>>
    /\ had_stash' = FALSE
    /\ wt0' = {}
    /\ delegations' = 0
    /\ pullRes' = NoRes
    /\ pushRes' = NoRes
    /\ result' = NoRes

\* datetime.now(): operations are numbered in the order they start
Now == ops

\* mutant of SyncStamp: the timestamp is taken before the result is looked at
SyncStampAlways(succeeded) == Now

\* self._last_sync = datetime.now(), reached on the success path only
SyncStamp(succeeded) == IF succeeded THEN Now ELSE lastSync

\* the vault content a fresh clone checks out
RemoteFiles == { << <<"v">>, <<"a", ".", "m", "d">> >> }

----------------------------------------------------------------------------
(* GitManager.clone                                                        *)

\* mutant of RepoMarked: clone never looks for an existing repository
RepoMarkedNever == FALSE

\* self.local_path.exists() and (self.local_path / ".git").exists()
RepoMarked == pathExists /\ gitDir

CloneEntry ==
    /\ pc = "clone"
    /\ IF RepoMarked
       THEN Delegate("pull")
       ELSE Goto("clone_git") /\ UNCHANGED delegations
    /\ UNCHANGED <<Outside, repoVars, files, lastSync, logLeak, cmds, had_stash, wt0>>

CloneGit ==
    /\ pc = "clone_git"
    \* git refuses to clone into an existing directory that is not empty
    /\ \E rc \in GitOutcomes(TRUE, ~pathExists \/ files = {}) :
        /\ RunGit("clone", CloneArgs, rc, <<>>)
        /\ IF rc = "ok"
           THEN /\ pathExists' = TRUE
                /\ gitDir' = TRUE
                /\ originUrl' = repo_url
                /\ wt' = {}
                /\ staged' = {}
                /\ stash' = <<>>
                /\ ahead' = 0
                /\ trackAhead' = 0
                /\ files' = RemoteFiles
                /\ lastSync' = SyncStamp(TRUE)
                /\ Return(Outcome(TRUE, "clone", "none", "none", "absent"))
                /\ UNCHANGED lastMsg
           ELSE /\ IF Raises(rc)
                   THEN Raise(rc) /\ UNCHANGED lastSync
                   ELSE /\ Return(Outcome(FALSE, "clone", "none", "stderr", "absent"))
                        /\ lastSync' = SyncStamp(FALSE)
                /\ UNCHANGED <<repoVars, files>>
    /\ UNCHANGED <<Outside, had_stash, wt0, delegations>>

----------------------------------------------------------------------------
(* GitManager.pull                                                         *)

NothingToStash == <<"No local changes to save", "\n">>
SavedStash == <<"Saved working directory and index state", "\n">>

\* had_stash = "No local changes to save" not in stash_result.stdout
HadStash(stdout) == ~Contains(stdout, <<"No local changes to save">>)

PullEntry ==
    /\ pc = "pull"
    /\ IF ~pathExists
       THEN Delegate("clone") /\ UNCHANGED wt0
       ELSE Goto("pull_stash") /\ wt0' = wt /\ UNCHANGED delegations
    /\ UNCHANGED <<Outside, repoVars, files, lastSync, logLeak, cmds, had_stash>>

\* git stash push -m "auto-stash before pull"
PullStash ==
    /\ pc = "pull_stash"
    /\ \E rc \in GitOutcomes(pathExists, gitDir) :
        LET out == IF rc /= "ok" THEN <<>>
                   ELSE IF wt = {} THEN NothingToStash ELSE SavedStash
        IN  /\ RunGit("stash_push", PlainArgs("stash"), rc, out)
            /\ IF rc = "ok" /\ wt /= {}
               THEN /\ stash' = <<wt>> \o stash
                    /\ wt' = {}
                    /\ staged' = {}
               ELSE UNCHANGED <<wt, staged, stash>>
            /\ IF Raises(rc)
               THEN Raise(rc) /\ UNCHANGED had_stash
               ELSE Goto("pull_git") /\ had_stash' = HadStash(out)
    /\ UNCHANGED <<Outside, pathExists, gitDir, originUrl, ahead, trackAhead, lastMsg,
                   files, lastSync, wt0, delegations>>

PullFailure == Outcome(FALSE, "pull", "none", "stderr", "absent")
PullSuccess == Outcome(TRUE, "pull", "none", "none", "absent")

\* git pull --rebase origin <branch>; it refuses to start on a dirty tree
PullGit ==
    /\ pc = "pull_git"
    /\ \E rc \in GitOutcomes(pathExists, gitDir /\ wt = {}) :
        /\ RunGit("pull", PlainArgs("pull"), rc, <<>>)
        /\ trackAhead' = IF rc = "ok" THEN ahead ELSE trackAhead
        /\ IF Raises(rc)
           THEN Raise(rc) /\ UNCHANGED lastSync
           ELSE IF had_stash
           THEN Goto("pull_pop") /\ UNCHANGED lastSync
           ELSE IF rc = "ok"
           THEN Return(PullSuccess) /\ lastSync' = SyncStamp(TRUE)
           ELSE Return(PullFailure) /\ lastSync' = SyncStamp(FALSE)
    /\ UNCHANGED <<Outside, pathExists, gitDir, originUrl, wt, staged, stash, ahead,
                   lastMsg, files, had_stash, wt0, delegations>>

\* the exit status of the  git pull  this call issued
PullRc == (CHOOSE i \in 1..Len(cmds) : cmds[i].cmd = "pull")

\* git stash pop, after a failed or a successful pull; its result is not read
PullPop ==
    /\ pc = "pull_pop"
    /\ \E rc \in GitOutcomes(pathExists, gitDir /\ stash /= <<>>) :
        /\ RunGit("stash_pop", PlainArgs("stash"), rc, <<>>)
        /\ IF rc = "ok"
           THEN /\ wt' = wt \cup Head(stash)
                /\ stash' = Tail(stash)
           ELSE UNCHANGED <<wt, stash>>
        /\ IF Raises(rc)
           THEN Raise(rc) /\ UNCHANGED lastSync
           ELSE IF cmds[PullRc].rc = "ok"
           THEN Return(PullSuccess) /\ lastSync' = SyncStamp(TRUE)
           ELSE Return(PullFailure) /\ lastSync' = SyncStamp(FALSE)
    /\ UNCHANGED <<Outside, pathExists, gitDir, originUrl, staged, ahead, trackAhead,
                   lastMsg, files, had_stash, wt0, delegations>>

----------------------------------------------------------------------------
(* GitManager.push                                                         *)

NoChanges == Outcome(TRUE, "no_changes", "none", "none", "false")
\* mutant of PushFailure: every failure is reported as a failure of the push step
PushFailureUnnamed(step) == Outcome(FALSE, "push", "push", "git failed", "absent")

PushFailure(step) == Outcome(FALSE, "push", step, "git failed", "absent")
PushSuccess == Outcome(TRUE, "push", "none", "none", "true")

\* what a listing command prints: one line per entry, nothing for none
Listing(n) == IF n > 0 THEN <<"entry", "\n">> ELSE <<>>

\* mutant of NothingStaged: the commit is attempted whatever the staged diff shows
NothingStagedNever(stdout) == FALSE

\* mutant of IsClean: the early return on a clean tree is missing
IsCleanNever(stdout) == FALSE

\* not status_result.stdout.strip()
IsClean(stdout) == Strip(stdout) = <<>>
\* not diff_result.stdout.strip()
NothingStaged(stdout) == Strip(stdout) = <<>>
\* verify_result.stdout.strip()
StillUnpushed(stdout) == Strip(stdout) /= <<>>

\* step 1: git status --porcelain
PushStatus ==
    /\ pc = "push_status"
    /\ \E rc \in GitOutcomes(pathExists, gitDir) :
        LET out == IF rc = "ok" THEN Listing(Cardinality(wt)) ELSE <<>>
        IN  /\ RunGit("status", PlainArgs("status"), rc, out)
            /\ IF Raises(rc) THEN Raise(rc)
               ELSE IF IsClean(out) THEN Return(NoChanges)
               ELSE Goto("push_add")
    /\ UNCHANGED <<Outside, repoVars, files, lastSync, had_stash, wt0, delegations>>

\* mutant of Failed: a nonzero exit status does not stop push
FailedIgnored(rc) == FALSE

\* add_result.returncode != 0 (likewise commit_result, push_result)
Failed(rc) == rc /= "ok"

\* what git add -A puts in the index: the changes status reported, or none
\* of them when they are changes add does not take (status lists modified
\* content inside a submodule, for one, and add -A leaves it alone)
Stageable(changes) == {changes, {}}

\* step 2: git add -A
PushAdd ==
    /\ pc = "push_add"
    /\ \E rc \in GitOutcomes(pathExists, gitDir) :
        /\ RunGit("add", PlainArgs("add"), rc, <<>>)
        /\ IF rc = "ok" THEN staged' \in Stageable(wt) ELSE staged' = staged
        /\ IF Raises(rc) THEN Raise(rc)
           ELSE IF Failed(rc) THEN Return(PushFailure("add"))
           ELSE Goto("push_diff")
    /\ UNCHANGED <<Outside, pathExists, gitDir, originUrl, wt, stash, ahead, trackAhead,
                   lastMsg, files, lastSync, had_stash, wt0, delegations>>

\* step 3: git diff --cached --stat
PushDiff ==
    /\ pc = "push_diff"
    /\ \E rc \in GitOutcomes(pathExists, gitDir) :
        LET out == IF rc = "ok" THEN Listing(Cardinality(staged)) ELSE <<>>
        IN  /\ RunGit("diff", PlainArgs("diff"), rc, out)
            /\ IF Raises(rc) THEN Raise(rc)
               ELSE IF NothingStaged(out) THEN Goto("push_ignored")
               ELSE Goto("push_commit")
    /\ UNCHANGED <<Outside, repoVars, files, lastSync, had_stash, wt0, delegations>>

\* step 3, nothing staged: git status --ignored --porcelain, then no_changes
PushIgnored ==
    /\ pc = "push_ignored"
    /\ \E rc \in GitOutcomes(pathExists, gitDir) :
        /\ RunGit("status_ignored", PlainArgs("status"), rc, <<>>)
        /\ IF Raises(rc) THEN Raise(rc) ELSE Return(NoChanges)
    /\ UNCHANGED <<Outside, repoVars, files, lastSync, had_stash, wt0, delegations>>

\* step 4: git commit -m message
PushCommit ==
    /\ pc = "push_commit"
    /\ \E rc \in GitOutcomes(pathExists, gitDir /\ staged /= {}) :
        /\ RunGit("commit", PlainArgs("commit"), rc, <<>>)
        /\ IF rc = "ok"
           THEN /\ wt' = wt \ staged
                /\ staged' = {}
                /\ ahead' = ahead + 1
                /\ trackAhead' = trackAhead + 1
                /\ lastMsg' = message
           ELSE UNCHANGED <<wt, staged, ahead, trackAhead, lastMsg>>
        /\ IF Raises(rc) THEN Raise(rc)
           ELSE IF Failed(rc) THEN Return(PushFailure("commit"))
           ELSE Goto("push_fetch")
    /\ UNCHANGED <<Outside, pathExists, gitDir, originUrl, stash, files, lastSync,
                   had_stash, wt0, delegations>>

\* git fetch origin <branch>: on success origin/<branch> is the remote's tip
Fetch(rc) == trackAhead' = IF rc = "ok" THEN ahead ELSE trackAhead

\* git log origin/<branch>..HEAD --oneline
LogOutput(rc) == IF rc = "ok" THEN Listing(trackAhead) ELSE <<>>

\* step 5: fetch, then log the commits to push; neither result is read
PushFetch ==
    /\ pc = "push_fetch"
    /\ \E rc \in GitOutcomes(pathExists, gitDir) :
        /\ RunGit("fetch", PlainArgs("fetch"), rc, <<>>)
        /\ Fetch(rc)
        /\ IF Raises(rc) THEN Raise(rc) ELSE Goto("push_log")
    /\ UNCHANGED <<Outside, pathExists, gitDir, originUrl, wt, staged, stash, ahead,
                   lastMsg, files, lastSync, had_stash, wt0, delegations>>

PushLog ==
    /\ pc = "push_log"
    /\ \E rc \in GitOutcomes(pathExists, gitDir) :
        /\ RunGit("log", PlainArgs("log"), rc, LogOutput(rc))
        /\ IF Raises(rc) THEN Raise(rc) ELSE Goto("push_push")
    /\ UNCHANGED <<Outside, repoVars, files, lastSync, had_stash, wt0, delegations>>

\* step 6: git push origin <branch>.  Exit status zero moves origin/<branch>
\* to HEAD; the remote has the commits unless it dropped them silently.
PushPush ==
    /\ pc = "push_push"
    /\ \E rc \in GitOutcomes(pathExists, gitDir) :
        /\ RunGit("push", PlainArgs("push"), rc, <<>>)
        /\ IF rc = "ok"
           THEN /\ trackAhead' = 0
                /\ \E accepted \in BOOLEAN : ahead' = IF accepted THEN 0 ELSE ahead
           ELSE UNCHANGED <<ahead, trackAhead>>
        /\ IF Raises(rc) THEN Raise(rc)
           ELSE IF Failed(rc) THEN Return(PushFailure("push"))
           ELSE Goto("push_refetch")
    /\ UNCHANGED <<Outside, pathExists, gitDir, originUrl, wt, staged, stash, lastMsg,
                   files, lastSync, had_stash, wt0, delegations>>

\* step 7: fetch again ...
PushRefetch ==
    /\ pc = "push_refetch"
    /\ \E rc \in GitOutcomes(pathExists, gitDir) :
        /\ RunGit("refetch", PlainArgs("fetch"), rc, <<>>)
        /\ Fetch(rc)
        /\ IF Raises(rc) THEN Raise(rc) ELSE Goto("push_verify")
    /\ UNCHANGED <<Outside, pathExists, gitDir, originUrl, wt, staged, stash, ahead,
                   lastMsg, files, lastSync, had_stash, wt0, delegations>>

\* ... and list the local commits origin/<branch> does not reach
PushVerify ==
    /\ pc = "push_verify"
    /\ \E rc \in GitOutcomes(pathExists, gitDir) :
        LET out == LogOutput(rc)
        IN  /\ RunGit("verify", PlainArgs("log"), rc, out)
            /\ IF Raises(rc) THEN Raise(rc) /\ UNCHANGED lastSync
               ELSE IF StillUnpushed(out)
               THEN Return(PushFailure("verify")) /\ lastSync' = SyncStamp(FALSE)
               ELSE Return(PushSuccess) /\ lastSync' = SyncStamp(TRUE)
    /\ UNCHANGED <<Outside, repoVars, files, had_stash, wt0, delegations>>

----------------------------------------------------------------------------
(* GitManager.sync                                                         *)

\* sync calls a method of its own engine
CallFromSync(callee, label) ==
    /\ stack' = Append(stack, callee)
    /\ pc' = label
    /\ wt0' = wt
    /\ UNCHANGED <<result, pullRes, pushRes, serving>>

\* mutant of SubFailed: sync goes on whatever the sub-result says
SubFailedIgnored(res) == FALSE

\* not pull_result.get("success") / not push_result.get("success")
SubFailed(res) == ~res.success

SyncFailure(step, res) ==
    [Outcome(FALSE, "sync", step, res.error, "absent")
        EXCEPT !.has_pull = (step = "pull"), !.has_push = (step = "push")]

\* push_result.get("changes_pushed", False)
ChangesPushed(res) == IF res.changes_pushed = "absent" THEN "false" ELSE res.changes_pushed

SyncSuccess(res) ==
    [Outcome(TRUE, "sync", "none", "none", ChangesPushed(res))
        EXCEPT !.has_pull = TRUE, !.has_push = TRUE]

SyncEntry ==
    /\ pc = "sync"
    /\ CallFromSync("pull", "pull")
    /\ UNCHANGED <<Outside, repoVars, files, lastSync, logLeak, cmds, had_stash,
                   delegations>>

SyncAfterPull ==
    /\ pc = "sync_after_pull"
    /\ IF SubFailed(pullRes)
       THEN Return(SyncFailure("pull", pullRes)) /\ UNCHANGED wt0
       ELSE CallFromSync("push", "push_status")
    /\ UNCHANGED <<Outside, repoVars, files, lastSync, logLeak, cmds, had_stash,
                   delegations>>

SyncAfterPush ==
    /\ pc = "sync_after_push"
    /\ IF SubFailed(pushRes)
       THEN Return(SyncFailure("push", pushRes))
       ELSE Return(SyncSuccess(pushRes))
    /\ UNCHANGED <<Outside, repoVars, files, lastSync, logLeak, cmds, had_stash, wt0,
                   delegations>>

----------------------------------------------------------------------------
(* GitManager.get_status                                                   *)

\* mutant of GsCheck: taking the snapshot refreshes the timestamp
GsCheckStamps ==
    /\ pc = "gs_check"
    /\ IF ~pathExists THEN Return(Snapshot("Local path does not exist", FALSE))
       ELSE IF ~gitDir THEN Return(Snapshot("Not a git repository", FALSE))
       ELSE Goto("gs_git")
    /\ lastSync' = Now
    /\ UNCHANGED <<Outside, repoVars, files, logLeak, cmds, had_stash, wt0, delegations>>

GsCheck ==
    /\ pc = "gs_check"
    /\ IF ~pathExists THEN Return(Snapshot("Local path does not exist", FALSE))
       ELSE IF ~gitDir THEN Return(Snapshot("Not a git repository", FALSE))
       ELSE Goto("gs_git")
    /\ UNCHANGED <<Outside, repoVars, files, lastSync, logLeak, cmds, had_stash, wt0,
                   delegations>>

\* the commands of the snapshot, in the order get_status issues them
GsCommands == <<"status", "branch", "log", "remote", "fetch", "ahead", "behind">>

\* git remote -v prints the URL origin was cloned from
RemoteOutput(rc) == IF rc = "ok" THEN originUrl \o <<"\n">> ELSE <<>>

\* status["remotes"] = remote_result.stdout.strip(): the snapshot holds the token
\* when that text does
SnapshotLeaks(issued) ==
    \E i \in 1..Len(issued) : issued[i].cmd = "remote" /\ HoldsToken(Strip(issued[i].out))

\* what the history keeps of a snapshot command: get_status reads no exit
\* status, and only the remote listing and the fetch differ by it
GsNoted(name, rc) ==
    IF Raises(rc) \/ name \in {"remote", "fetch"} THEN rc ELSE "unread"

GsGit ==
    /\ pc = "gs_git"
    /\ \E rc \in GitOutcomes(pathExists, gitDir) :
        LET name == GsCommands[Len(cmds) + 1]
            out  == IF name = "remote" THEN RemoteOutput(rc) ELSE <<>>
        IN  /\ RunGit(name, PlainArgs(name), GsNoted(name, rc), out)
            /\ IF name = "fetch" THEN Fetch(rc) ELSE UNCHANGED trackAhead
            /\ IF Raises(rc) THEN Raise(rc)
               ELSE IF Len(cmds) + 1 < Len(GsCommands) THEN Goto("gs_git")
               ELSE Return(Snapshot("none", SnapshotLeaks(cmds')))
    /\ UNCHANGED <<Outside, pathExists, gitDir, originUrl, wt, staged, stash, ahead,
                   lastMsg, files, lastSync, had_stash, wt0, delegations>>

----------------------------------------------------------------------------
(* server.py: the tool handlers.                                           *)

NoteHandlers == {"read_note", "create_note", "update_note", "delete_note",
                 "read_metadata"}
AttachmentHandlers == {"read_attachment", "write_attachment"}
PathHandlers == NoteHandlers \cup AttachmentHandlers \cup {"list_vault"}
Mutating == {"create_note", "update_note", "delete_note", "write_attachment"}

MdSuffix == <<".", "m", "d">>
MarkdownSuffix == <<".", "m", "a", "r", "k", "d", "o", "w", "n">>

\* if not path.endswith((".md", ".markdown")): path = f"{path}.md"
EnsureMd(path) ==
    IF EndsWith(path, MdSuffix) \/ EndsWith(path, MarkdownSuffix)
    THEN path
    ELSE path \o MdSuffix

\* the path the handler hands to validate_path
HandlerPath(h, path) == IF h \in NoteHandlers THEN EnsureMd(path) ELSE path

\* VaultManager.ATTACHMENT_EXTENSIONS
ATTACHMENT_EXTENSIONS ==
    { <<".", "p", "n", "g">>, <<".", "j", "p", "g">>, <<".", "j", "p", "e", "g">>,
      <<".", "g", "i", "f">>, <<".", "w", "e", "b", "p">>, <<".", "p", "d", "f">>,
      <<".", "s", "v", "g">>, <<".", "m", "p", "3">>, <<".", "m", "p", "4">>,
      <<".", "w", "e", "b", "m">> }

\* str.lower(), on the letters request paths are built from
LowerChar(c) ==
    CASE c = "P" -> "p" [] c = "N" -> "n" [] c = "G" -> "g" [] OTHER -> c
Lower(s) == [i \in 1..Len(s) |-> LowerChar(s[i])]

\* Path.suffix: the last segment from its last dot, unless that dot leads or ends it
Suffix(abs) ==
    IF abs = <<>> THEN <<>>
    ELSE LET name == abs[Len(abs)]
             dots == {i \in 2..(Len(name) - 1) : name[i] = "."}
         IN  IF dots = {} THEN <<>>
             ELSE LET i == CHOOSE d \in dots : \A e \in dots : e <= d
                  IN  SubSeq(name, i, Len(name))

SupportedType(abs) == Lower(Suffix(abs)) \in ATTACHMENT_EXTENSIONS

\* directories of the vault: its root
IsDir(abs) == abs = VaultRoot
PathOnDisk(abs) == abs \in files \/ IsDir(abs)

NoResponse == [kind |-> "none", success |-> FALSE, error |-> "none", outcome |-> NoRes]
Response(success, error) ==
    [kind |-> "response", success |-> success, error |-> error, outcome |-> NoRes]
\* sync_vault returns the engine's dictionary itself
EngineResponse(v) ==
    [kind |-> "response", success |-> v.success, error |-> v.error, outcome |-> v]

\* the message the handler gives sync
SyncMessage(h) ==
    CASE h = "create_note" -> "Created"
      [] h = "update_note" -> "Updated"
      [] h = "delete_note" -> "Deleted"
      [] h = "write_attachment" -> "Added attachment"
      [] OTHER -> "Manual sync from Poke"

Did(event) == hEvents' = Append(hEvents, event)

Finish(response) ==
    /\ hresult' = response
    /\ hpc' = "done"

\* a request arrives; _get_vault() builds a VaultManager, which refuses a
\* vault path that does not exist
HStart(paths) ==
    /\ serving
    /\ pc = "idle"
    /\ hpc \in {"idle", "done"}
    /\ ops < MaxOps
    /\ \E h \in PathHandlers, path \in paths :
        /\ handler' = h
        /\ reqPath' = HandlerPath(h, path)
        /\ full_path' = Rejected("none")
        /\ hEvents' = <<>>
        /\ ops' = ops + 1
        /\ IF ~pathExists
           THEN Finish(Response(FALSE, "Failed"))
           \* list_vault("") lists the root without validating anything
           ELSE IF h = "list_vault" /\ path = <<>>
           THEN hresult' = NoResponse /\ hpc' = "read"
           ELSE hresult' = NoResponse /\ hpc' = "validate"
    /\ ClearCall
    /\ UNCHANGED <<EngineIdle, wt, files>>

\* mutant of SecurityResponse: the rejection is answered like a missing note
SecurityResponseAsNotFound(e) == Response(FALSE, "Note not found")

\* except PathSecurityError as e: return {"error": str(e), "success": False}
SecurityResponse(e) == Response(FALSE, e)

\* full_path = vault.validate_path(path), PathSecurityError caught
HValidate ==
    /\ hpc = "validate"
    /\ full_path' = validate_path(reqPath)
    /\ Did("validate")
    /\ IF full_path'.ok
       THEN hpc' = "precond" /\ UNCHANGED hresult
       ELSE Finish(SecurityResponse(full_path'.err))
    /\ UNCHANGED <<EngineIdle, wt, files, callVars, ops, handler, reqPath>>

\* the checks between validation and the read or write
PrecondError(h, abs) ==
    CASE h \in {"read_note", "read_metadata", "update_note", "delete_note"} ->
            IF abs \in files THEN "none" ELSE "Note not found"
      [] h = "create_note" ->
            IF PathOnDisk(abs) THEN "Note exists" ELSE "none"
      [] h = "read_attachment" ->
            IF ~PathOnDisk(abs) THEN "Attachment not found"
            ELSE IF ~SupportedType(abs) THEN "Unsupported type" ELSE "none"
      [] h = "write_attachment" ->
            IF ~SupportedType(abs) THEN "Unsupported type" ELSE "none"
      [] h = "list_vault" ->
            IF ~PathOnDisk(abs) THEN "Folder not found"
            ELSE IF ~IsDir(abs) THEN "Not a folder" ELSE "none"

\* write_attachment looks at the suffix only; the others stat the path
Stats(h) == h /= "write_attachment"

HPrecond ==
    /\ hpc = "precond"
    /\ LET err == PrecondError(handler, full_path.path)
       IN  /\ IF Stats(handler) THEN Did("exists") ELSE UNCHANGED hEvents
           /\ IF err /= "none" THEN Finish(Response(FALSE, err))
              ELSE /\ hpc' = IF handler \in Mutating THEN "mutate" ELSE "read"
                   /\ UNCHANGED hresult
    /\ UNCHANGED <<EngineIdle, wt, files, callVars, ops, handler, reqPath, full_path>>

\* read_note, read_metadata, read_attachment, list_vault: read and answer
HRead ==
    /\ hpc = "read"
    /\ Did("read")
    /\ Finish(Response(TRUE, "none"))
    /\ UNCHANGED <<EngineIdle, wt, files, callVars, ops, handler, reqPath, full_path>>

\* the events of each mutation, in the order the handler performs them
MutationEvents(h) ==
    CASE h = "create_note" -> <<"mkdir", "write">>
      [] h = "update_note" -> <<"read", "write">>
      [] h = "delete_note" -> <<"unlink">>
      [] h = "write_attachment" -> <<"mkdir", "write">>

\* the write or unlink; base64.b64decode raises on malformed input
HMutate ==
    /\ hpc = "mutate"
    /\ \E decodes \in (IF handler = "write_attachment" THEN BOOLEAN ELSE {TRUE}) :
        IF ~decodes
        THEN /\ Finish(Response(FALSE, "Failed"))
             /\ UNCHANGED <<files, wt, hEvents>>
        ELSE /\ hEvents' = hEvents \o MutationEvents(handler)
             /\ files' = IF handler = "delete_note"
                         THEN files \ {full_path.path}
                         ELSE files \cup {full_path.path}
             /\ \E e \in Edits : wt' = wt \cup {e}
             /\ hpc' = "mutated"
             /\ UNCHANGED hresult
    /\ UNCHANGED <<EngineIdle, callVars, ops, handler, reqPath, full_path>>

\* mutant of AutoSyncOn: the handler syncs whatever the flag says
AutoSyncIgnored == TRUE

\* if config.auto_sync:
AutoSyncOn == autoSync

\* git_manager.sync(...) after the mutation
HSync ==
    /\ hpc = "mutated"
    /\ AutoSyncOn
    /\ Did("sync")
    /\ BeginCall("sync", "handler", SyncMessage(handler))
    /\ hpc' = "sync_wait"
    /\ UNCHANGED <<EngineIdle, wt, files, ops, handler, reqPath, full_path, hresult>>

\* auto_sync is off: return {"success": True, "path": path}
HNoSync ==
    /\ hpc = "mutated"
    /\ ~AutoSyncOn
    /\ Finish(Response(TRUE, "none"))
    /\ UNCHANGED <<EngineIdle, wt, files, callVars, ops, handler, reqPath, full_path,
                   hEvents>>

\* sync came back: its outcome is dropped; an exception out of it lands in
\* the handler's  except Exception
HAfterSync ==
    /\ hpc = "sync_wait"
    /\ pc = "idle"
    /\ IF result.kind = "exception"
       THEN Finish(Response(FALSE, "Failed"))
       ELSE Finish(Response(TRUE, "none"))
    /\ UNCHANGED <<EngineIdle, wt, files, callVars, ops, handler, reqPath, full_path,
                   hEvents>>

SyncVaultActions == {"pull", "push", "sync", "status", "debug", "other"}

\* the engine method behind each action of sync_vault
SyncVaultMethod(action) == IF action = "debug" THEN "get_status" ELSE action

\* sync_vault(action)
SvStart ==
    /\ serving
    /\ pc = "idle"
    /\ hpc \in {"idle", "done"}
    /\ ops < MaxOps
    /\ \E action \in SyncVaultActions :
        /\ handler' = "sync_vault"
        /\ reqPath' = <<>>
        /\ full_path' = Rejected("none")
        /\ hEvents' = <<>>
        /\ ops' = ops + 1
        /\ IF action \in {"pull", "push", "sync", "debug"}
           THEN /\ BeginCall(SyncVaultMethod(action), "handler", "Manual sync from Poke")
                /\ hpc' = "sv_wait"
                /\ hresult' = NoResponse
           ELSE /\ Finish(IF action = "status"
                          THEN Response(TRUE, "none")
                          ELSE Response(FALSE, "Unknown action"))
                /\ ClearCall
    /\ UNCHANGED <<EngineIdle, wt, files>>

\* return git_manager.<method>(...), or the  except Exception  branch
SvReturn ==
    /\ hpc = "sv_wait"
    /\ pc = "idle"
    /\ IF result.kind = "exception"
       THEN Finish(Response(FALSE, "Sync failed"))
       ELSE Finish(EngineResponse(result))
    /\ UNCHANGED <<EngineIdle, wt, files, callVars, ops, handler, reqPath, full_path,
                   hEvents>>

----------------------------------------------------------------------------
(* Callers of the engine, the initial state and the specifications.        *)

EngineMethods == {"clone", "pull", "push", "sync", "get_status"}

\* server.py at import: git_manager.clone()
Startup ==
    /\ ~serving
    /\ ops = 0
    /\ pc = "idle"
    /\ BeginCall("clone", "startup", "none")
    /\ ops' = ops + 1
    /\ UNCHANGED <<cfgVars, repoVars, files, lastSync, logLeak, serving, hVars, parked>>

\* a direct call of one of the engine's public methods
ApiCall ==
    /\ ~serving
    /\ pc = "idle"
    /\ ops < MaxOps
    /\ \E op \in EngineMethods : BeginCall(op, "api", "add note")
    /\ ops' = ops + 1
    /\ UNCHANGED <<cfgVars, repoVars, files, lastSync, logLeak, serving, hVars, parked>>

\* the local root when the engine is constructed: missing, a directory that
\* is no repository, or a clone left by an earlier run
RootStates == {"missing", "plain", "repo"}

\* GitManager.__init__ has run; no method has been called yet
Constructed ==
    /\ cfgUrl \in {HttpsUrl, SshUrl}
    /\ cfgToken \in {NoToken, Token}
    /\ \E root \in RootStates :
        /\ pathExists = (root /= "missing")
        /\ gitDir = (root = "repo")
        /\ originUrl = IF root = "repo" THEN repo_url ELSE <<>>
        /\ wt \in (IF root = "repo" THEN SUBSET Edits ELSE {{}})
        /\ files \in (CASE root = "missing" -> {{}}
                        [] root = "plain" -> {{}, RemoteFiles}
                        [] root = "repo" -> {RemoteFiles})
    /\ staged = {}
    /\ stash = <<>>
    /\ ahead = 0
    /\ trackAhead = 0
    /\ lastMsg = "none"
    /\ lastSync = NoSync
    /\ logLeak = FALSE
    /\ pc = "idle"
    /\ stack = <<>>
    /\ caller = "none"
    /\ top = "none"
    /\ message = "none"
    /\ cmds = <<>>
    /\ had_stash = FALSE
    /\ wt0 = {}
    /\ delegations = 0
    /\ pullRes = NoRes
    /\ pushRes = NoRes
    /\ result = NoRes
    /\ serving = FALSE
    /\ ops = 0
    /\ handler = "none"
    /\ hpc = "idle"
    /\ reqPath = <<>>
    /\ full_path = Rejected("none")
    /\ hEvents = <<>>
    /\ hresult = NoResponse
    /\ parked = NoCall

\* the engine on its own: its public methods, called directly
Init == Constructed /\ autoSync = FALSE

\* the server, pointed at an https remote: configuration read, start-up to come
ServerInit == Constructed /\ cfgUrl = HttpsUrl /\ autoSync \in BOOLEAN

\* the request paths the handlers are driven with: a note, a note that is
\* not in the vault, a traversal, a path through the symbolic link, and an
\* attachment
ReqPaths ==
    { <<"a">>, <<"b">>, <<".", ".", "/", "a">>, <<"l", "/", "a">>,
      <<"a", ".", "P", "N", "G">> }

\* a step of pull(), push() or sync()
SyncStep ==
    \/ PullEntry \/ PullStash \/ PullGit \/ PullPop
    \/ PushStatus \/ PushAdd \/ PushDiff \/ PushIgnored \/ PushCommit
    \/ PushFetch \/ PushLog \/ PushPush \/ PushRefetch \/ PushVerify
    \/ SyncEntry \/ SyncAfterPull \/ SyncAfterPush

EngineStep ==
    \/ CloneEntry \/ CloneGit
    \/ SyncStep
    \/ GsCheck \/ GsGit

Next == ApiCall \/ EngineStep

Spec == Init /\ [][Next]_vars

ServerNext ==
    \/ Startup
    \/ EngineStep
    \/ HStart(ReqPaths) \/ HValidate \/ HPrecond \/ HRead \/ HMutate
    \/ HSync \/ HNoSync \/ HAfterSync
    \/ SvStart \/ SvReturn

ServerSpec == ServerInit /\ [][ServerNext]_vars

----------------------------------------------------------------------------
(* The handlers driven with every short path, auto-sync off, on a server   *)
(* whose start-up clone has just succeeded.                                 *)

PathChars == {"a", "l", "v", ".", "/", "\\"}

AllPaths == UNION {[1..n -> PathChars] : n \in 0..MaxLen}

PathInit ==
    /\ cfgUrl = HttpsUrl
    /\ cfgToken = NoToken
    /\ autoSync = FALSE
    /\ pathExists = TRUE
    /\ gitDir = TRUE
    /\ originUrl = HttpsUrl
    /\ wt = {}
    /\ staged = {}
    /\ stash = <<>>
    /\ ahead = 0
    /\ trackAhead = 0
    /\ lastMsg = "none"
    /\ files = RemoteFiles
    /\ lastSync = 1
    /\ logLeak = FALSE
    /\ pc = "idle"
    /\ stack = <<>>
    /\ caller = "startup"
    /\ top = "clone"
    /\ message = "none"
    /\ cmds = <<[cmd |-> "clone", rc |-> "ok", out |-> <<>>]>>
    /\ had_stash = FALSE
    /\ wt0 = {}
    /\ delegations = 0
    /\ pullRes = NoRes
    /\ pushRes = NoRes
    /\ result = Outcome(TRUE, "clone", "none", "none", "absent")
    /\ serving = TRUE
    /\ ops = 1
    /\ handler = "none"
    /\ hpc = "idle"
    /\ reqPath = <<>>
    /\ full_path = Rejected("none")
    /\ hEvents = <<>>
    /\ hresult = NoResponse
    /\ parked = NoCall

\* one request
PathStart == hpc = "idle" /\ HStart(AllPaths)

PathNext == PathStart \/ HValidate \/ HPrecond \/ HRead \/ HMutate \/ HNoSync

PathSpec == PathInit /\ [][PathNext]_vars

\* the server with its vault cloned and notes written that are not committed
\* yet, serving requests as they arrive
ConcurrentInit ==
    /\ cfgUrl = HttpsUrl
    /\ cfgToken = NoToken
    /\ autoSync = FALSE
    /\ pathExists = TRUE
    /\ gitDir = TRUE
    /\ originUrl = HttpsUrl
    /\ wt \in SUBSET Edits
    /\ staged = {}
    /\ stash = <<>>
    /\ ahead = 0
    /\ trackAhead = 0
    /\ lastMsg = "none"
    /\ files = RemoteFiles
    /\ lastSync = 1
    /\ logLeak = FALSE
    /\ pc = "idle"
    /\ stack = <<>>
    /\ caller = "none"
    /\ top = "none"
    /\ message = "none"
    /\ cmds = <<>>
    /\ had_stash = FALSE
    /\ wt0 = {}
    /\ delegations = 0
    /\ pullRes = NoRes
    /\ pushRes = NoRes
    /\ result = NoRes
    /\ serving = TRUE
    /\ ops = 1
    /\ handler = "none"
    /\ hpc = "idle"
    /\ reqPath = <<>>
    /\ full_path = Rejected("none")
    /\ hEvents = <<>>
    /\ hresult = NoResponse
    /\ parked = NoCall

\* sync_vault's actions that run git commands in the vault
SyncOperations == {"pull", "push", "sync"}

\* sync_vault(action): the handler calls git_manager.pull(), push() or sync()
\* straight away; it takes no lock and waits for no other request
SvCall ==
    /\ serving
    /\ pc = "idle"
    /\ ops <= MaxOps
    /\ \E action \in SyncOperations :
        BeginCall(SyncVaultMethod(action), "handler", "Manual sync from Poke")
    /\ ops' = ops + 1
    /\ UNCHANGED <<cfgVars, repoVars, files, lastSync, logLeak, serving, hVars, parked>>

\* the same, for a request that arrives while another request's engine call
\* is in progress: that call is set aside where it stands
SvCallOverlapping ==
    /\ serving
    /\ pc /= "idle"
    /\ parked.pc = "idle"
    /\ ops <= MaxOps
    /\ parked' = ThisCall
    /\ \E action \in SyncOperations :
        BeginCall(SyncVaultMethod(action), "handler", "Manual sync from Poke")
    /\ ops' = ops + 1
    /\ UNCHANGED <<cfgVars, repoVars, files, lastSync, logLeak, serving, hVars>>

\* the scheduler lets the other request run: between two git commands
\* nothing is held that would keep it out of the working tree
Switch ==
    /\ parked.pc /= "idle"
    /\ parked' = ThisCall
    /\ pc' = parked.pc
    /\ stack' = parked.stack
    /\ caller' = parked.caller
    /\ top' = parked.top
    /\ message' = parked.message
    /\ cmds' = parked.cmds
    /\ had_stash' = parked.had_stash
    /\ wt0' = parked.wt0
    /\ delegations' = parked.delegations
    /\ pullRes' = parked.pullRes
    /\ pushRes' = parked.pushRes
    /\ result' = parked.result
    /\ UNCHANGED <<cfgVars, repoVars, files, lastSync, logLeak, serving, ops, hVars>>

ConcurrentNext == SvCall \/ SvCallOverlapping \/ Switch \/ SyncStep

\* the server's engine under requests that may overlap
ConcurrentSpec == ConcurrentInit /\ [][ConcurrentNext]_vars

----------------------------------------------------------------------------
(* Vocabulary of the properties.                                           *)

Issued(name) == \E i \in 1..Len(cmds) : cmds[i].cmd = name
IssuedOk(name) == \E i \in 1..Len(cmds) : cmds[i].cmd = name /\ cmds[i].rc = "ok"

\* the commands push issues
PushCommands == {"status", "add", "diff", "status_ignored", "commit", "fetch", "log",
                 "push", "refetch", "verify"}

\* push is on the stack, or has issued its first command
PushEntered ==
    /\ top \in {"push", "sync"}
    /\ \/ Issued("status")
       \/ (stack /= <<>> /\ stack[Len(stack)] = "push")

\* push has returned a dictionary, to its caller or to sync
PushReturned ==
    \/ top = "push" /\ pc = "idle" /\ result.kind = "outcome"
    \/ top = "sync" /\ pushRes.kind = "outcome"
PushValue == IF top = "push" THEN result ELSE pushRes

\* pull has just returned a dictionary, to its caller or to sync
PullReturned ==
    \/ top \in {"pull", "clone"} /\ pc = "idle" /\ result.kind = "outcome"
          /\ result.action = "pull"
    \/ top = "sync" /\ pc = "sync_after_pull" /\ pullRes.kind = "outcome"
          /\ pullRes.action = "pull"
PullValue == IF pc = "idle" THEN result ELSE pullRes

\* step 1 of this pull put the local edits on the stash stack
Stashed ==
    \E i \in 1..Len(cmds) :
        cmds[i].cmd = "stash_push" /\ cmds[i].rc = "ok" /\ cmds[i].out = SavedStash

\* an absolute path is the vault root or below it
InsideRoot(abs) == abs /= <<>> /\ abs[1] = <<"v">>

\* a ".." segment in the string
HasParentSegment(path) ==
    LET comps == SplitSlash(path) IN \E i \in 1..Len(comps) : comps[i] = DotDot

\* where the operating system lands when it opens the path from the vault root
Lands(path) ==
    Resolve(IF StartsWith(path, <<"/">>) THEN Segments(path)
            ELSE << <<"v">> >> \o Segments(path))

\* the handler has been through validate_path
Validated == hEvents /= <<>> /\ hEvents[1] = "validate" /\ hpc /= "validate"

Happened(event) == \E i \in 1..Len(hEvents) : hEvents[i] = event
DiskWritten == Happened("write") \/ Happened("unlink") \/ Happened("mkdir")

PathSecurityErrors == {"Path traversal detected", "Path escapes vault"}
PreconditionErrors == {"Note exists", "Note not found", "Attachment not found",
                       "Unsupported type", "Folder not found", "Not a folder"}

----------------------------------------------------------------------------
(* The claims.                                                             *)

\* C1: when the pull that sync runs first returns success false, sync issues
\* none of push's commands, never enters push, and returns success false
\* with action "sync" and step "pull".
C1_SyncShortCircuits ==
    (top = "sync" /\ pullRes.kind = "outcome" /\ ~pullRes.success) =>
        /\ \A i \in 1..Len(cmds) : cmds[i].cmd \notin PushCommands
        /\ \A i \in 1..Len(stack) : stack[i] /= "push"
        /\ pushRes.kind = "none"
        /\ pc \in {"sync_after_pull", "idle"}
        /\ pc = "idle" =>
              /\ result.kind = "outcome"
              /\ ~result.success
              /\ result.action = "sync"
              /\ result.step = "pull"

\* a sync whose git pull exited nonzero has returned
C1_Witness ==
    /\ top = "sync"
    /\ pc = "idle"
    /\ result.step = "pull"
    /\ \E i \in 1..Len(cmds) : cmds[i].cmd = "pull" /\ cmds[i].rc = "fail"

\* C2: a push that committed, whose push command exited zero and whose
\* post-push fetch succeeded, returns success false with step "verify"
\* whenever a local commit is still missing from the remote branch.
C2_UnpushedFailsVerify ==
    (PushReturned /\ IssuedOk("commit") /\ IssuedOk("push") /\ IssuedOk("refetch")
        /\ ahead > 0) =>
        (~PushValue.success /\ PushValue.step = "verify")

\* C3: push on a clean working tree issues no add, commit or push command
\* and returns success true, action "no_changes", changes_pushed false.
C3_CleanPushIsNoOp ==
    (PushEntered /\ wt0 = {}) =>
        /\ ~Issued("add") /\ ~Issued("commit") /\ ~Issued("push")
        /\ PushReturned => PushValue = NoChanges

\* a push called on a clean tree has returned
C3_Witness ==
    /\ top = "push"
    /\ pc = "idle"
    /\ wt0 = {}
    /\ IssuedOk("status")
    /\ result.action = "no_changes"

\* C4: a pull that stashed local edits and then failed has issued the stash
\* pop, and the working tree holds the same edits as when pull was called.
C4_FailedPullRestoresTree ==
    (PullReturned /\ ~PullValue.success /\ Stashed) =>
        (Issued("stash_pop") /\ wt = wt0)

\* C5, as stated: a path with a ".." segment, or one that the operating
\* system resolves outside the vault root, is rejected by validate_path.
C5_AsStated ==
    (Validated /\ (HasParentSegment(reqPath) \/ ~InsideRoot(Lands(reqPath)))) =>
        ~full_path.ok

\* C5, amended: a path whose normalised form still has a ".." segment, or
\* whose normalised form resolves outside the vault root, is rejected with a
\* path-security error, and the handler neither reads nor writes anything.
C5_EscapesRejected ==
    (Validated /\ (\/ HasParentSegment(normpath(reqPath))
                   \/ ~InsideRoot(Lands(normpath(reqPath))))) =>
        /\ ~full_path.ok
        /\ hpc = "done"
        /\ ~hresult.success
        /\ hresult.error \in PathSecurityErrors
        /\ hEvents = <<"validate">>
        /\ files = RemoteFiles
        /\ wt = {}

\* a path through the symbolic link, with no ".." in it, has been rejected
C5_Witness ==
    /\ hpc = "done"
    /\ StartsWith(reqPath, <<"l", "/">>)
    /\ ~HasParentSegment(reqPath)
    /\ hresult.error = "Path escapes vault"

\* C6: a path with no ".." segment that resolves within the vault root is
\* accepted, and the path returned is the root or below it.
C6_InsidePathsAccepted ==
    (Validated /\ ~HasParentSegment(reqPath) /\ InsideRoot(Lands(reqPath))) =>
        (full_path.ok /\ InsideRoot(full_path.path))

\* C7: with a token configured, no written log line and no returned value
\* holds the token.
C7_TokenNeverExposed ==
    cfgToken /= NoToken =>
        (~logLeak /\ ~result.leak /\ ~pullRes.leak /\ ~pushRes.leak)

\* C8: clone, pull, push and sync return an outcome whatever the git commands
\* do, a timeout included; no exception leaves the engine.
C8_EngineIsTotal ==
    (/\ pc = "idle"
     /\ top \in {"clone", "pull", "push", "sync"}
     /\ \A i \in 1..Len(cmds) : cmds[i].rc /= "oserror") =>
        result.kind = "outcome"

\* C9: a mutating handler that has performed its mutation answers success
\* true, whatever the sync it started did.
C9_MutationSucceedsWhateverSync ==
    (handler \in Mutating /\ hpc = "done" /\ (Happened("write") \/ Happened("unlink"))) =>
        hresult.success

\* C10, amended: a handler that takes a path validates it before anything
\* else; sync is called only after the mutation and only with auto-sync on;
\* a rejected path or a failed precondition leads to no disk write and no
\* sync call; auto-sync off leads to no sync call.
C10_ValidateFirstSyncLast ==
    handler \in PathHandlers =>
        /\ (hEvents /= <<>> /\ ~(handler = "list_vault" /\ reqPath = <<>>)) =>
              hEvents[1] = "validate"
        /\ \A i \in 1..Len(hEvents) :
              hEvents[i] = "sync" =>
                  /\ autoSync
                  /\ \E j \in 1..(i - 1) : hEvents[j] \in {"write", "unlink"}
        /\ top /= "none" => Happened("sync")
        /\ (hpc = "done" /\ hresult.error \in PathSecurityErrors \cup PreconditionErrors) =>
              (~DiskWritten /\ ~Happened("sync") /\ top = "none")
        /\ ~autoSync => (~Happened("sync") /\ top = "none")

\* C10, as stated: the same, and no disk write either when auto-sync is off.
C10_AsStated ==
    /\ C10_ValidateFirstSyncLast
    /\ (handler \in PathHandlers /\ ~autoSync) => ~DiskWritten

\* create_note wrote the note and then synced
C10_Witness ==
    /\ handler = "create_note"
    /\ hpc = "done"
    /\ hEvents = <<"validate", "exists", "mkdir", "write", "sync">>
    /\ hresult.success

\* the engine method called has returned a dictionary
Returned(op) == top = op /\ pc = "idle" /\ result.kind = "outcome"

\* the timestamp was written during the call in progress or just finished
StampedNow == lastSync /= NoSync /\ lastSync = ops

\* C11, as stated: the timestamp is absent until a clone, pull or push returns
\* success, and no operation that returns success false has changed it,
\* sync included.
C11_AsStated ==
    /\ lastSync /= NoSync => lastSync \in 1..ops
    /\ \A op \in {"clone", "pull", "push", "sync"} :
          (Returned(op) /\ ~result.success) => ~StampedNow

\* C11, amended: the timestamp is absent until a clone, pull or push returns
\* success and is written only by a clone, pull or push that returns
\* success, called directly or as a step of sync; a clone, pull or push that
\* returns success false, and a sync that fails at its pull, leave it as it
\* was (a sync that fails at its push keeps the timestamp of its pull).
C11_StampOnlyOnSuccess ==
    /\ lastSync /= NoSync => lastSync \in 1..ops
    /\ StampedNow =>
          \/ \E op \in {"clone", "pull", "push"} :
                Returned(op) /\ result.success /\ result.action \in {"clone", "pull", "push"}
          \/ top = "sync" /\ pullRes.kind = "outcome" /\ pullRes.success
    /\ \A op \in {"clone", "pull", "push"} :
          (Returned(op) /\ ~result.success) => ~StampedNow
    /\ (Returned("sync") /\ result.step = "pull") => ~StampedNow
    /\ (top = "sync" /\ pushRes.kind = "outcome" /\ ~pushRes.success) =>
          (StampedNow /\ pullRes.success)

\* an earlier call stamped, and the pull called after it failed and left the
\* timestamp of that earlier call
C11_Witness ==
    /\ Returned("pull")
    /\ ~result.success
    /\ lastSync /= NoSync
    /\ lastSync < ops

\* how many times this call issued the command
TimesIssued(name) == Cardinality({i \in 1..Len(cmds) : cmds[i].cmd = name})

\* every git command of this call exited zero
AllExitedZero == \A i \in 1..Len(cmds) : cmds[i].rc = "ok"

\* C12: a push on a tree with one new file whose commands all succeed, the
\* remote taking the commit, makes one commit with the given message and
\* returns success true with changes_pushed true; and whenever push returns
\* changes_pushed true, no local commit is missing from the remote branch.
C12_PushedMeansRemoteHasIt ==
    /\ (Returned("push") /\ Cardinality(wt0) = 1 /\ AllExitedZero /\ Issued("commit")
            /\ ahead = 0) =>
          /\ result = PushSuccess
          /\ TimesIssued("commit") = 1
          /\ lastMsg = message
    /\ (PushReturned /\ PushValue.changes_pushed = "true") => ahead = 0

\* the last git command this call issued
LastCmd == cmds[Len(cmds)]

\* C13: a failed push names, among add, commit, push and verify, the step
\* whose command was the last one issued and failed; a failed sync names
\* the sub-operation that failed; and no_changes, a failure and a success
\* with changes are told apart by the outcome: no_changes means no commit
\* was made, success with changes means commit and push exited zero.
C13_FailureNamesItsStep ==
    /\ (PushReturned /\ ~PushValue.success) =>
          /\ PushValue.step \in {"add", "commit", "push", "verify"}
          /\ LastCmd.cmd = PushValue.step
          /\ IF PushValue.step = "verify"
             THEN LastCmd.out /= <<>> /\ IssuedOk("push")
             ELSE LastCmd.rc = "fail"
          /\ PushValue.step \in {"commit", "push", "verify"} => IssuedOk("add")
          /\ PushValue.step \in {"push", "verify"} => IssuedOk("commit")
    /\ (Returned("sync") /\ ~result.success) =>
          \/ /\ result.step = "pull"
             /\ ~pullRes.success
             /\ pushRes.kind = "none"
          \/ /\ result.step = "push"
             /\ pullRes.success
             /\ pushRes.kind = "outcome"
             /\ ~pushRes.success
    /\ PushReturned =>
          \/ /\ PushValue.action = "no_changes"
             /\ PushValue.success
             /\ ~Issued("commit")
          \/ /\ PushValue.action = "push"
             /\ ~PushValue.success
             /\ PushValue.changes_pushed = "absent"
          \/ /\ PushValue.action = "push"
             /\ PushValue.success
             /\ PushValue.changes_pushed = "true"
             /\ IssuedOk("commit")
             /\ IssuedOk("push")

\* a push has failed at its commit, after staging
C13_Witness ==
    /\ Returned("push")
    /\ ~result.success
    /\ result.step = "commit"
    /\ IssuedOk("add")

\* C14: whenever sync ran push, the outcome sync returns holds both
\* pull_result and push_result, on success and on push failure alike.
C14_SyncCarriesBothResults ==
    (Returned("sync") /\ pushRes.kind = "outcome") =>
        (result.has_pull /\ result.has_push)

\* the local root did not exist when this call was entered: only a clone
\* that exits zero creates it
RootWasMissing == ~pathExists \/ IssuedOk("clone")

\* the local root held a repository when this call was entered: only a
\* clone that exits zero makes one
RootWasRepo == gitDir /\ ~IssuedOk("clone")

\* what clone() does on a root that is missing: one git clone, the outcome
\* by its exit status, the timestamp written exactly on success
ClonesOnce ==
    /\ Len(cmds) = 1
    /\ cmds[1].cmd = "clone"
    /\ result = CASE cmds[1].rc = "ok" -> Outcome(TRUE, "clone", "none", "none", "absent")
                  [] cmds[1].rc = "fail" -> Outcome(FALSE, "clone", "none", "stderr", "absent")
                  [] OTHER -> Raised(cmds[1].rc)
    /\ StampedNow <=> cmds[1].rc = "ok"
    /\ cmds[1].rc = "ok" => (pathExists /\ gitDir /\ files = RemoteFiles)

\* C15: pull() on a local root that does not exist does what clone() does on
\* it (the same single git clone, the same outcome, the same timestamp
\* update), and clone() on a local root that holds a repository issues no
\* clone command and returns what pull() returns.
C15_CloneAndPullSymmetric ==
    /\ (top \in {"clone", "pull"} /\ pc = "idle" /\ RootWasMissing) => ClonesOnce
    /\ (top = "clone" /\ RootWasRepo) =>
          /\ ~Issued("clone")
          /\ pc /= "clone" => delegations = 1
          /\ pc = "idle" =>
                \/ result.kind = "exception"
                \/ result.kind = "outcome" /\ result.action = "pull"

\* pull() was called on a missing root and has cloned it
C15_Witness ==
    /\ top = "pull"
    /\ pc = "idle"
    /\ delegations = 1
    /\ IssuedOk("clone")
    /\ result.action = "clone"

\* C16: in the first call made on the engine, a commit command is preceded
\* by the command that configures the commit identity (later calls rely on
\* that one configuration).
C16_IdentityBeforeFirstCommit ==
    ops = 1 =>
        \A i \in 1..Len(cmds) :
            cmds[i].cmd = "commit" => \E j \in 1..(i - 1) : cmds[j].cmd = "config"

NotFoundErrors == {"Note not found", "Attachment not found", "Folder not found"}

\* C18: whenever validate_path rejects the path a handler was given, the
\* handler answers with the path-security error and not with a not-found
\* error, and it has not looked for the target on disk.
C18_RejectionIsNotNotFound ==
    (handler \in PathHandlers /\ Validated /\ ~validate_path(reqPath).ok) =>
        /\ hpc = "done"
        /\ ~hresult.success
        /\ hresult.error \in PathSecurityErrors
        /\ hresult.error \notin NotFoundErrors
        /\ hresult.error = validate_path(reqPath).err
        /\ ~Happened("exists")

\* read_attachment was given a traversal and answered with the security error
C18_Witness ==
    /\ handler = "read_attachment"
    /\ hpc = "done"
    /\ HasParentSegment(normpath(reqPath))
    /\ hresult.error = "Path traversal detected"

\* command j was issued before command i, under the given name and with
\* exit status zero
OkBefore(name, i) == \E j \in 1..(i - 1) : cmds[j].cmd = name /\ cmds[j].rc = "ok"

\* C19: in every run of push, commit is issued only after add exited zero
\* and the staged diff printed something, push only after commit exited
\* zero, the verification fetch and log only after push exited zero, in
\* that order; add, commit and push are issued at most once in a call.
C19_PushStepsGated ==
    /\ \A i \in 1..Len(cmds) :
          /\ cmds[i].cmd = "add" => \E j \in 1..(i - 1) : cmds[j].cmd = "status"
          /\ cmds[i].cmd = "commit" =>
                \E j \in 1..(i - 1) :
                    /\ cmds[j].cmd = "diff"
                    /\ Strip(cmds[j].out) /= <<>>
                    /\ OkBefore("add", j)
          /\ cmds[i].cmd = "push" => OkBefore("commit", i)
          /\ cmds[i].cmd = "refetch" => OkBefore("push", i)
          /\ cmds[i].cmd = "verify" =>
                \E j \in 1..(i - 1) : cmds[j].cmd = "refetch" /\ OkBefore("push", j)
    /\ TimesIssued("add") <= 1
    /\ TimesIssued("commit") <= 1
    /\ TimesIssued("push") <= 1

\* a push went through all seven steps
C19_Witness ==
    /\ PushReturned
    /\ Issued("verify")
    /\ IssuedOk("push")
    /\ IssuedOk("commit")

\* the tree was dirty when push was entered, add -A exited zero and staged
\* nothing, and the tree is dirty still
StagedNothing == wt0 /= {} /\ IssuedOk("add") /\ staged = {} /\ wt /= {}

\* C20: when the working tree is dirty and nothing is staged after staging
\* everything, push issues no commit and no push command and returns the
\* outcome of a clean tree: success true, action "no_changes",
\* changes_pushed false.
C20_NothingStagedIsNoChanges ==
    (PushEntered /\ StagedNothing) =>
        /\ ~Issued("commit")
        /\ ~Issued("push")
        /\ PushReturned => PushValue = NoChanges

\* push found a dirty tree, staged nothing, saw an empty staged diff and
\* returned no_changes
C20_Witness ==
    /\ Returned("push")
    /\ StagedNothing
    /\ \E i \in 1..Len(cmds) : cmds[i].cmd = "diff" /\ cmds[i].rc = "ok" /\ cmds[i].out = <<>>
    /\ Issued("status_ignored")
    /\ result.action = "no_changes"

\* C21: pull issues the stash pop if and only if its own stash command
\* stashed something: no pop after a stash command that stashed nothing or
\* failed, and a pop before pull returns after one that stashed.
C21_PopOnlyOwnStash ==
    /\ Issued("stash_pop") => Stashed
    /\ (PullReturned /\ Stashed) => Issued("stash_pop")

\* C22: whenever push or sync returns success true, no local commit is
\* missing from the remote branch; a commit left behind by an earlier
\* failed push is not hidden behind a no_changes success.
C22_SuccessMeansNothingUnpushed ==
    /\ (PushReturned /\ PushValue.success) => ahead = 0
    /\ (Returned("sync") /\ result.success) => ahead = 0

\* C23: push returns success true only if every git command it issued
\* exited zero: status, add, diff, commit, both fetches, both logs and push.
C23_SuccessMeansAllExitedZero ==
    (PushReturned /\ PushValue.success) =>
        \A i \in 1..Len(cmds) : cmds[i].cmd \in PushCommands => cmds[i].rc = "ok"

\* C24: a call of clone() or pull() hands over to the other method at most
\* once, whatever the local root holds, and what it ends with is an outcome.
C24_DelegationEndsInOutcome ==
    top \in {"clone", "pull"} =>
        /\ delegations <= 1
        /\ pc = "idle" => result.kind = "outcome"


\* both requests' engine calls are under way and each has run a git command
BothInFlight ==
    /\ pc /= "idle"
    /\ parked.pc /= "idle"
    /\ cmds /= <<>>
    /\ parked.cmds /= <<>>

\* C25: when the engine is driven through the tool handlers, at most one
\* engine operation runs against the local root at a time: the git steps of
\* two overlapping requests are never interleaved on the working tree, the
\* index and the stash.
C25_OneOperationInFlight == ~BothInFlight

=============================================================================
